---- MODULE Spec2Model ----
(***************************************************************************)
(* State machine of the chat route handlers (app/(chat)/api/vote/route.ts):*)
(* POST /api/chat (start-generation), GET /api/chat (resume) and           *)
(* DELETE /api/chat, together with the generation producer created by POST *)
(* and the resumable-stream channel both handlers share.                   *)
(*                                                                         *)
(* Every await of a handler is a point where other requests may run, so a  *)
(* handler is a sequence of steps; one step is the code between two awaits *)
(* whose interleaving with other requests can be observed.                 *)
(***************************************************************************)
EXTENDS Integers, Sequences, FiniteSets, TLC

\* ---------------------------------------------------------------- bounds
MaxGenerations == 2     \* start-generation requests accepted in one behaviour
MaxChunks == 1          \* text deltas one generation emits
TicksPerSecond == 2     \* resolution of the clock: ticks in one second
MaxCtorAttempts == 2    \* constructions of the stream context that are counted
\* entitlementsByUserType[userType].maxMessagesPerDay (line 104), scaled down
\* so that the bounded behaviours reach the quota
MaxMessagesPerDay == 1

\* ------------------------------------------------------------- constants
StaleWindow == 15       \* seconds, route.ts line 379

Users == {"u1", "u2"}
Anon == "anon"                       \* auth() returned no session
Sessions == Users \cup {Anon}
ChatIds == {"c1"}
NoParam == ""                        \* parameter missing from the request
Visibilities == {"private", "public"}
\* connections open at the same time: one that starts generations, one
\* that resumes them
PostConn == "A"
GetConn == "B"
\* and one for the short requests: delete a chat, list votes, cast a vote
OtherConn == "C"
Conns == {PostConn, GetConn, OtherConn}
GenIds == 1..MaxGenerations          \* generateUUID(): a fresh id per generation

LongGap == StaleWindow * TicksPerSecond
MaxClock == LongGap + TicksPerSecond
\* time that may pass before a resume request: none, the window, the window
\* and a fraction of a second, the window and a second
Elapsed == {0, LongGap, LongGap + 1, LongGap + TicksPerSecond}

VARIABLES
    redisUrl,             \* environment: REDIS_URL is configured
    globalStreamContext,  \* "null" or "ctx"
    now,                  \* the wall clock, in ticks
    chats,                \* Chat table: chat id -> NoChat or a row
    messages,             \* Message table, rows in createdAt order
    streamIds,            \* Stream table, rows in creation order
    gen,                  \* the generation producer of each stream id
    channel,              \* resumable-stream sentinel of each stream id
    req,                  \* the request each connection is serving
    started,              \* start-generation requests accepted so far
    ctorAttempts,         \* calls of createResumableStreamContext so far
    votes                 \* Vote table: rows keyed by chat and message

vars == <<redisUrl, globalStreamContext, now, chats, messages, streamIds,
          gen, channel, req, started, ctorAttempts, votes>>

\* ------------------------------------------------------------ data model
NoChat == [userId |-> Anon, visibility |-> "none"]

\* the id of no message: messageId missing from a request
NoMessageId == <<"none", 0>>

NoMsg == [id |-> NoMessageId, chatId |-> NoParam, role |-> "none",
          parts |-> <<>>, createdAt |-> 0]

NoGen == [stage |-> "none", n |-> 0, persist |-> "pending", failed |-> FALSE,
          chat |-> NoParam]

IdleReq == [op |-> "idle", pc |-> "idle", num |-> 0, user |-> Anon,
            chat |-> NoParam, vis |-> "private", at |-> 0, recent |-> 0,
            ctx |-> "unread", pub |-> "uncalled", mrm |-> NoMsg,
            resp |-> "none", src |-> "none", srcGen |-> 0, body |-> <<>>,
            conn |-> TRUE, dbRead |-> FALSE, minted |-> 0,
            readIds |-> FALSE, readMsgs |-> FALSE,
            message |-> NoMessageId, type |-> NoParam,
            prior |-> "none", threw |-> "none", call |-> "none"]

\* getMessagesByChatId({ id }): the chat's rows in createdAt order
MessagesOf(c) == SelectSeq(messages, LAMBDA m : m.chatId = c)

\* getStreamIdsByChatId({ chatId }): the chat's stream ids in creation order
RECURSIVE StreamIdsOfRows(_, _)
StreamIdsOfRows(rows, c) ==
    IF rows = <<>> THEN <<>>
    ELSE (IF Head(rows).chatId = c THEN <<Head(rows).streamId>> ELSE <<>>)
         \o StreamIdsOfRows(Tail(rows), c)

StreamIdsOf(c) == StreamIdsOfRows(streamIds, c)

\* getMessageCountByUserId({ id, differenceInHours: 24 }): the user's own
\* messages of the last 24 hours (the clock of a behaviour stays within them)
MessageCount(u) ==
    Cardinality({i \in DOMAIN messages :
                    /\ messages[i].role = "user"
                    /\ chats[messages[i].chatId].userId = u})

\* ----------------------------------------------------------------- chunks
TextChunk(g, k) == [type |-> "text-delta", data |-> <<g, k>>]
FinishChunk(g) == [type |-> "finish", data |-> <<g, 0>>]
ErrorChunk(g) == [type |-> "error", data |-> <<g, 0>>]

\* the parts of the assistant message appendResponseMessages re-assembles
PartsOf(g, n) == [k \in 1..n |-> <<g, k>>]

\* everything the data stream of generation g has emitted so far
GenChunks(g) ==
    [k \in 1..gen[g].n |-> TextChunk(g, k)]
    \o (IF gen[g].stage \in {"post", "closed"} /\ ~gen[g].failed
        THEN <<FinishChunk(g)>> ELSE <<>>)
    \o (IF gen[g].failed THEN <<ErrorChunk(g)>> ELSE <<>>)

GenClosed(g) == gen[g].stage = "closed"
GenActive(g) == gen[g].stage \in {"run", "post"}

\* JSON.stringify(mostRecentMessage): every column of the row, the Date
\* column as text
Serialize(m) == <<"json", m.id, m.chatId, m.role, m.parts, <<"date", m.createdAt>>>>

AppendMessageChunk(m) == [type |-> "append-message", data |-> Serialize(m)]

\* differenceInSeconds(later, earlier) of date-fns: whole seconds, the
\* fraction dropped (rounded towards zero)
DifferenceInSeconds(later, earlier) ==
    LET d == later - earlier
    IN  IF d >= 0 THEN d \div TicksPerSecond ELSE -((-d) \div TicksPerSecond)

\* the stream a response carries, and whether its source has closed it
StreamChunks(s) ==
    IF req[s].src = "gen" THEN GenChunks(req[s].srcGen) ELSE req[s].body

StreamClosed(s) ==
    IF req[s].src = "gen" THEN GenClosed(req[s].srcGen) ELSE TRUE

Streaming(s) == req[s].resp = "stream"
\* the client has read its stream to the end
Ended(s) == Streaming(s) /\ req[s].conn /\ StreamClosed(s)

\* the handler has returned and nothing is left to read, or the client is
\* gone: the connection is released before anything else happens
Over(s) == \/ req[s].pc = "done"
           \/ req[s].pc = "reading" /\ (~req[s].conn \/ StreamClosed(s))

Quiet == \A s \in Conns : ~Over(s)

Free(s) == req[s].op = "idle"

\* ------------------------------------------------------------------- Init
\* the module is loaded at time t: nothing stored, no stream context yet; k
\* of the start-generation requests a behaviour may accept are used up
Loaded(t, k) ==
    /\ redisUrl \in BOOLEAN
    /\ globalStreamContext = "null"
    /\ ctorAttempts = 0
    /\ votes = {}
    /\ now = t
    /\ chats = [c \in ChatIds |-> NoChat]
    /\ messages = <<>>
    /\ streamIds = <<>>
    /\ gen = [g \in GenIds |-> NoGen]
    /\ channel = [g \in GenIds |-> "absent"]
    /\ req = [s \in Conns |-> IdleReq]
    /\ started = k

LoadedAt(t) == Loaded(t, 0)

Init == LoadedAt(0)

\* new Date() of a resume request (line 293), after some time has passed;
\* the other readings of the clock see the time of the last one
ReadClock == \E d \in Elapsed : now + d <= MaxClock /\ now' = now + d

\* lines 46-49: getStreamContext() calls createResumableStreamContext
\* whenever globalStreamContext is still null; the count stops at the bound
AttemptsAfterAccess ==
    IF globalStreamContext = "null" /\ ctorAttempts < MaxCtorAttempts
    THEN ctorAttempts + 1 ELSE ctorAttempts

\* getStreamContext(): the handle, built on first use when REDIS_URL is set
GetStreamContext ==
    IF globalStreamContext # "null" THEN globalStreamContext
    ELSE IF redisUrl THEN "ctx" ELSE "null"

\* streamContext.resumableStream(streamId, makeStream): the first caller for
\* an id publishes makeStream(), a later one reads the published stream, and
\* once that stream is done the call yields null
ResumableStream(g) ==
    IF channel[g] = "absent" THEN "publisher"
    ELSE IF channel[g] = "emptyDone" \/ (channel[g] = "gen" /\ GenClosed(g))
         THEN "null" ELSE "reader"

\* what a channel hands to each of its readers: every chunk of the published
\* stream from the first one on, in the order of emission, and the end of
\* the stream when the published stream has ended (an empty data stream has
\* no chunk and ends at once)
ChannelChunks(g) == IF channel[g] = "gen" THEN GenChunks(g) ELSE <<>>

ChannelClosed(g) == IF channel[g] = "gen" THEN GenClosed(g) ELSE TRUE

Respond(s, kind) == [req[s] EXCEPT !.pc = "done", !.resp = kind]

\* a response that carries a stream
RespondStream(r, src, g, body) ==
    IF src = "gen"
    THEN [r EXCEPT !.pc = "reading", !.resp = "stream", !.src = src,
                   !.srcGen = g, !.at = 0]
    ELSE [r EXCEPT !.pc = "reading", !.resp = "stream", !.src = src,
                   !.body = body]

\* --------------------------------------------- POST /api/chat (lines 74-281)
PostInputs ==
    {[ok |-> FALSE, user |-> Anon, chat |-> NoParam, vis |-> "private"]}
    \cup {[ok |-> TRUE, user |-> u, chat |-> c, vis |-> v] :
             u \in Sessions, c \in ChatIds, v \in Visibilities}

\* lines 78-106: parse the body, authenticate, check the daily quota
PostBegin(s) ==
    /\ Quiet
    /\ s = PostConn
    /\ Free(s)
    /\ \E in \in PostInputs :
          LET r == [IdleReq EXCEPT !.op = "POST"]
          IN  IF ~in.ok
              THEN /\ req' = [req EXCEPT ![s] =
                         [r EXCEPT !.pc = "done", !.resp = "bad_request:api"]]
                   /\ UNCHANGED started
              ELSE IF in.user = Anon
              THEN /\ req' = [req EXCEPT ![s] =
                         [r EXCEPT !.pc = "done", !.resp = "unauthorized:chat",
                                   !.chat = in.chat]]
                   /\ UNCHANGED started
              ELSE IF MessageCount(in.user) > MaxMessagesPerDay
              THEN /\ req' = [req EXCEPT ![s] =
                         [r EXCEPT !.pc = "done", !.resp = "rate_limit:chat",
                                   !.chat = in.chat, !.user = in.user,
                                   !.dbRead = TRUE]]
                   /\ UNCHANGED started
              ELSE /\ started < MaxGenerations
                   /\ started' = started + 1
                   /\ req' = [req EXCEPT ![s] =
                         [r EXCEPT !.pc = "chat", !.chat = in.chat,
                                   !.user = in.user, !.vis = in.vis,
                                   !.dbRead = TRUE, !.num = started + 1]]
    /\ UNCHANGED <<redisUrl, globalStreamContext, now, chats, messages,
                   streamIds, gen, channel>>
    /\ UNCHANGED <<ctorAttempts, votes>>

\* lines 109-156: look the chat up (an existing chat must be the caller's, a
\* missing one is created), read the history and save the user message
\* (createdAt: new Date())
PostSaveMsg(s) ==
    /\ Quiet
    /\ req[s].op = "POST" /\ req[s].pc = "chat"
    /\ LET chat == chats[req[s].chat]
       IN  IF chat # NoChat /\ chat.userId # req[s].user
           THEN /\ req' = [req EXCEPT ![s] = Respond(s, "forbidden:chat")]
                /\ UNCHANGED <<now, chats, messages>>
           ELSE /\ chats' = IF chat # NoChat THEN chats
                            ELSE [chats EXCEPT ![req[s].chat] =
                                    [userId |-> req[s].user,
                                     visibility |-> req[s].vis]]
                /\ UNCHANGED now
                /\ messages' = Append(messages,
                       [id |-> <<"user", req[s].num>>, chatId |-> req[s].chat,
                        role |-> "user", parts |-> <<>>, createdAt |-> now])
                /\ req' = [req EXCEPT ![s].pc = "mint", ![s].readMsgs = TRUE,
                                      ![s].user = Anon, ![s].vis = "private"]
    /\ UNCHANGED <<redisUrl, globalStreamContext, streamIds, gen, channel,
                   started>>
    /\ UNCHANGED <<ctorAttempts, votes>>

\* variant: the request goes on to publish without recording a stream id
PostMintNothing(s) ==
    /\ Quiet
    /\ req[s].op = "POST" /\ req[s].pc = "mint"
    /\ req' = [req EXCEPT ![s].pc = "publish"]
    /\ UNCHANGED <<redisUrl, globalStreamContext, now, chats, messages,
                   streamIds, gen, channel, started>>
    /\ UNCHANGED <<ctorAttempts, votes>>

\* lines 159-160: mint the stream id and record it for the chat
PostMint(s) ==
    /\ Quiet
    /\ req[s].op = "POST" /\ req[s].pc = "mint"
    /\ IF chats[req[s].chat] # NoChat
       THEN /\ streamIds' = Append(streamIds,
                   [streamId |-> req[s].num, chatId |-> req[s].chat])
            /\ req' = [req EXCEPT ![s].pc = "publish", ![s].minted = @ + 1]
       ELSE /\ req' = [req EXCEPT ![s] = Respond(s, "internal_server_error:api")]
            /\ UNCHANGED streamIds
    /\ UNCHANGED <<redisUrl, globalStreamContext, now, chats, messages, gen,
                   channel, started>>
    /\ UNCHANGED <<ctorAttempts, votes>>

\* variant: without a published stream the channel's stream is returned
PostResponseStreamChannel(ctx, outcome) ==
    IF outcome = "publisher" THEN "own" ELSE "channel"

\* lines 246-261: the stream the response carries: "own" is the data stream
\* of this request's generation, "channel" the stream resumableStream gave
PostResponseStream(ctx, outcome) ==
    IF ctx = "null" THEN "own"
    ELSE IF outcome = "null" THEN "own"
    ELSE IF outcome = "publisher" THEN "own"
    ELSE "channel"

\* lines 163-270: createDataStream starts the producer, then the stream is
\* published under the minted id and returned
PostPublish(s) ==
    /\ Quiet
    /\ req[s].op = "POST" /\ req[s].pc = "publish"
    /\ LET g == req[s].num
           ctx == GetStreamContext
           outcome == IF ctx = "null" THEN "uncalled" ELSE ResumableStream(g)
           which == PostResponseStream(ctx, outcome)
           r == [req[s] EXCEPT !.ctx = ctx, !.pub = outcome]
       IN  /\ gen' = [gen EXCEPT ![g] =
                         [NoGen EXCEPT !.stage = "run", !.chat = req[s].chat]]
           /\ globalStreamContext' = ctx
           /\ channel' = IF outcome = "publisher"
                         THEN [channel EXCEPT ![g] = "gen"] ELSE channel
           /\ req' = [req EXCEPT ![s] =
                         IF which = "own" THEN RespondStream(r, "gen", g, <<>>)
                         ELSE RespondStream(r, "static", 0, <<>>)]
    /\ UNCHANGED <<redisUrl, now, chats, messages, streamIds, started>>
    /\ ctorAttempts' = AttemptsAfterAccess
    /\ UNCHANGED votes

\* ------------------------------ the generation producer (lines 163-242)
\* streamText emits one more text delta
ProducerEmit(g) ==
    /\ Quiet
    /\ gen[g].stage = "run"
    /\ gen[g].n < MaxChunks
    /\ gen' = [gen EXCEPT ![g].n = @ + 1]
    /\ UNCHANGED <<redisUrl, globalStreamContext, now, chats, messages,
                   streamIds, channel, req, started>>
    /\ UNCHANGED <<ctorAttempts, votes>>

\* variant: a failure to save the assistant message fails the stream
ProducerOnFinishThrows(g) ==
    /\ Quiet
    /\ gen[g].stage = "run"
    /\ gen[g].n = MaxChunks
    /\ \E ok \in BOOLEAN :
          IF ok /\ chats[gen[g].chat] # NoChat
          THEN /\ messages' = Append(messages,
                      [id |-> <<"assistant", g>>, chatId |-> gen[g].chat,
                       role |-> "assistant", parts |-> PartsOf(g, gen[g].n),
                       createdAt |-> now])
               /\ gen' = [gen EXCEPT ![g].stage = "post", ![g].persist = "saved"]
          ELSE /\ gen' = [gen EXCEPT ![g].stage = "closed", ![g].failed = TRUE,
                                     ![g].persist = "failed"]
               /\ UNCHANGED messages
    /\ UNCHANGED <<redisUrl, globalStreamContext, now, chats, streamIds,
                   channel, req, started>>
    /\ UNCHANGED <<ctorAttempts, votes>>

\* lines 190-225, onFinish: save the assistant message; a failure (no
\* assistant id, the insert throwing, the chat gone) is logged and dropped
ProducerOnFinish(g) ==
    /\ Quiet
    /\ gen[g].stage = "run"
    /\ gen[g].n = MaxChunks
    /\ \E ok \in BOOLEAN :
          IF ok /\ chats[gen[g].chat] # NoChat
          THEN /\ UNCHANGED now
               /\ messages' = Append(messages,
                      [id |-> <<"assistant", g>>, chatId |-> gen[g].chat,
                       role |-> "assistant", parts |-> PartsOf(g, gen[g].n),
                       createdAt |-> now])
               /\ gen' = [gen EXCEPT ![g].stage = "post", ![g].persist = "saved"]
          ELSE /\ gen' = [gen EXCEPT ![g].stage = "post", ![g].persist = "failed"]
               /\ UNCHANGED <<now, messages>>
    /\ UNCHANGED <<redisUrl, globalStreamContext, chats, streamIds, channel,
                   req, started>>
    /\ UNCHANGED <<ctorAttempts, votes>>

\* variant: the data stream closes without waiting for onFinish
ProducerCloseEarly(g) ==
    /\ Quiet
    /\ \/ gen[g].stage = "post"
       \/ gen[g].stage = "run" /\ gen[g].n = MaxChunks
    /\ gen' = [gen EXCEPT ![g].stage = "closed"]
    /\ UNCHANGED <<redisUrl, globalStreamContext, now, chats, messages,
                   streamIds, channel, req, started>>
    /\ UNCHANGED <<ctorAttempts, votes>>

\* onFinish has returned: the data stream closes
ProducerClose(g) ==
    /\ Quiet
    /\ gen[g].stage = "post"
    /\ gen' = [gen EXCEPT ![g].stage = "closed"]
    /\ UNCHANGED <<redisUrl, globalStreamContext, now, chats, messages,
                   streamIds, channel, req, started>>
    /\ UNCHANGED <<ctorAttempts, votes>>

\* lines 238-241, onError: the model call fails; the error part goes out
\* and the stream closes, onFinish never runs
ProducerFail(g) ==
    /\ Quiet
    /\ gen[g].stage = "run"
    /\ gen' = [gen EXCEPT ![g].stage = "closed", ![g].failed = TRUE]
    /\ UNCHANGED <<redisUrl, globalStreamContext, now, chats, messages,
                   streamIds, channel, req, started>>
    /\ UNCHANGED <<ctorAttempts, votes>>

\* variant: the producer runs only while a client reads its stream
ProducerStepWhileRead(g) ==
    /\ \E s \in Conns :
          /\ req[s].pc = "reading" /\ req[s].conn
          /\ req[s].src = "gen" /\ req[s].srcGen = g
    /\ \/ ProducerEmit(g)
       \/ ProducerOnFinish(g)
       \/ ProducerClose(g)
       \/ ProducerFail(g)

\* consumeStream (line 232) drives the producer whether or not anyone reads
ProducerStep(g) ==
    \/ ProducerEmit(g)
    \/ ProducerOnFinish(g)
    \/ ProducerClose(g)
    \/ ProducerFail(g)

\* ------------------------------------------ GET /api/chat (lines 290-409)
GetInputs == {[user |-> u, chat |-> c] : u \in Sessions,
                                         c \in ChatIds \cup {NoParam}}

\* variant: the parameter and the session are checked before the context
GetEarlyRespParamFirst(ctx, in) ==
    IF in.chat = NoParam THEN "bad_request:api"
    ELSE IF in.user = Anon THEN "unauthorized:chat"
    ELSE IF ctx = "null" THEN "204"
    ELSE "none"

\* lines 292-312: the checks made before any storage is read, in their
\* order: the stream context, the chatId parameter, the session
GetEarlyResp(ctx, in) ==
    IF ctx = "null" THEN "204"
    ELSE IF in.chat = NoParam THEN "bad_request:api"
    ELSE IF in.user = Anon THEN "unauthorized:chat"
    ELSE "none"

\* variant: a chat without stream ids is reported as a missing chat
NoStreamRespAsChat(ids) == IF Len(ids) = 0 THEN "not_found:chat" ELSE "none"

\* lines 337-344: the response when the chat has no stream id
NoStreamResp(ids) == IF Len(ids) = 0 THEN "not_found:stream" ELSE "none"

\* variant: the visibility of the chat is not looked at
GetForbiddenNever(chat, user) == FALSE

\* lines 330-332: a private chat may be resumed by its owner only
GetForbidden(chat, user) ==
    chat.visibility = "private" /\ chat.userId # user

\* lines 292-344: the stream context first (and the time of the request),
\* then the parameter and the session; the chat must exist and a private
\* chat must be the caller's; then the chat's stream ids, the last one being
\* the recent one
GetBegin(s) ==
    /\ Quiet
    /\ s = GetConn
    /\ Free(s)
    /\ globalStreamContext' = GetStreamContext
    /\ \E in \in GetInputs :
          LET ctx == GetStreamContext
              r == [IdleReq EXCEPT !.op = "GET", !.ctx = ctx,
                                   !.chat = in.chat]
              chat == chats[in.chat]
              ids == StreamIdsOf(in.chat)
          IN  IF GetEarlyResp(ctx, in) # "none"
              THEN /\ req' = [req EXCEPT ![s] =
                         [r EXCEPT !.pc = "done", !.resp = GetEarlyResp(ctx, in),
                                   !.user = in.user]]
                   /\ UNCHANGED now
              ELSE IF chat = NoChat
              THEN /\ req' = [req EXCEPT ![s] =
                         [r EXCEPT !.pc = "done", !.resp = "not_found:chat",
                                   !.dbRead = TRUE]]
                   /\ UNCHANGED now
              ELSE IF GetForbidden(chat, in.user)
              THEN /\ req' = [req EXCEPT ![s] =
                         [r EXCEPT !.pc = "done", !.resp = "forbidden:chat",
                                   !.user = in.user, !.dbRead = TRUE]]
                   /\ UNCHANGED now
              ELSE IF NoStreamResp(ids) # "none"
              THEN /\ req' = [req EXCEPT ![s] =
                         [r EXCEPT !.pc = "done", !.resp = NoStreamResp(ids),
                                   !.dbRead = TRUE, !.readIds = TRUE]]
                   /\ UNCHANGED now
              ELSE /\ ReadClock
                   /\ req' = [req EXCEPT ![s] =
                         [r EXCEPT !.pc = "attach", !.user = in.user,
                                   !.at = now', !.recent = ids[Len(ids)],
                                   !.dbRead = TRUE, !.readIds = TRUE]]
    /\ UNCHANGED <<redisUrl, chats, messages, streamIds, gen, channel,
                   started>>
    /\ ctorAttempts' = AttemptsAfterAccess
    /\ UNCHANGED votes

\* variant: a resume request that reads a live generation is handed an
\* empty data stream
GetAttachEmpty(s) ==
    /\ Quiet
    /\ req[s].op = "GET" /\ req[s].pc = "attach"
    /\ LET g == req[s].recent
           outcome == ResumableStream(g)
           r == [req[s] EXCEPT !.pub = outcome, !.user = Anon]
       IN  /\ channel' = IF outcome = "publisher"
                         THEN [channel EXCEPT ![g] = "empty"] ELSE channel
           /\ req' = [req EXCEPT ![s] =
                  IF outcome = "null" THEN [r EXCEPT !.pc = "fallback"]
                  ELSE RespondStream(r, "static", 0, <<>>)]
    /\ UNCHANGED <<redisUrl, globalStreamContext, now, chats, messages,
                   streamIds, gen, started>>
    /\ UNCHANGED <<ctorAttempts, votes>>

\* lines 347-359 and 400: resumableStream(recentStreamId, () =>
\* emptyDataStream); a stream is returned as the response, null goes on to
\* the fallback
GetAttach(s) ==
    /\ Quiet
    /\ req[s].op = "GET" /\ req[s].pc = "attach"
    /\ LET g == req[s].recent
           outcome == ResumableStream(g)
           r == [req[s] EXCEPT !.pub = outcome, !.user = Anon]
       IN  /\ channel' = IF outcome = "publisher"
                         THEN [channel EXCEPT ![g] = "empty"] ELSE channel
           /\ req' = [req EXCEPT ![s] =
                  IF outcome = "null" THEN [r EXCEPT !.pc = "fallback"]
                  ELSE IF outcome = "reader" /\ channel[g] = "gen"
                  THEN RespondStream(r, "gen", g, <<>>)
                  ELSE RespondStream(r, "static", 0, <<>>)]
    /\ UNCHANGED <<redisUrl, globalStreamContext, now, chats, messages,
                   streamIds, gen, started>>
    /\ UNCHANGED <<ctorAttempts, votes>>

\* variant: the fallback that does not look at the role of the message
FallbackBodyAnyRole(at, mrm) ==
    IF mrm = NoMsg THEN <<>>
    ELSE IF DifferenceInSeconds(at, mrm.createdAt) > StaleWindow THEN <<>>
    ELSE <<AppendMessageChunk(mrm)>>

\* variant: the fallback whose window is one second longer
FallbackBodyLongerWindow(at, mrm) ==
    IF mrm = NoMsg THEN <<>>
    ELSE IF mrm.role # "assistant" THEN <<>>
    ELSE IF DifferenceInSeconds(at, mrm.createdAt) > StaleWindow + 1 THEN <<>>
    ELSE <<AppendMessageChunk(mrm)>>

\* variant: the fallback for which a message of exactly window age is stale
FallbackBodyShorterWindow(at, mrm) ==
    IF mrm = NoMsg THEN <<>>
    ELSE IF mrm.role # "assistant" THEN <<>>
    ELSE IF DifferenceInSeconds(at, mrm.createdAt) >= StaleWindow THEN <<>>
    ELSE <<AppendMessageChunk(mrm)>>

\* lines 369-394: what the fallback stream carries for the most recent
\* message mrm read by a request made at time at
FallbackBody(at, mrm) ==
    IF mrm = NoMsg THEN <<>>
    ELSE IF mrm.role # "assistant" THEN <<>>
    ELSE IF DifferenceInSeconds(at, mrm.createdAt) > StaleWindow THEN <<>>
    ELSE <<AppendMessageChunk(mrm)>>

\* lines 365-397: no stream to resume: replay the most recent message
GetFallback(s) ==
    /\ Quiet
    /\ req[s].op = "GET" /\ req[s].pc = "fallback"
    /\ LET msgs == MessagesOf(req[s].chat)
           mrm == IF Len(msgs) = 0 THEN NoMsg ELSE msgs[Len(msgs)]
           r == [req[s] EXCEPT !.readMsgs = TRUE, !.mrm = mrm]
       IN  req' = [req EXCEPT ![s] =
                      RespondStream(r, "static", 0, FallbackBody(req[s].at, mrm))]
    /\ UNCHANGED <<redisUrl, globalStreamContext, now, chats, messages,
                   streamIds, gen, channel, started>>
    /\ UNCHANGED <<ctorAttempts, votes>>

\* the empty data stream a resume request published has been read to its end
EmptyDrain(g) ==
    /\ Quiet
    /\ channel[g] = "empty"
    /\ channel' = [channel EXCEPT ![g] = "emptyDone"]
    /\ UNCHANGED <<redisUrl, globalStreamContext, now, chats, messages,
                   streamIds, gen, req, started>>
    /\ UNCHANGED <<ctorAttempts, votes>>

\* --------------------------------------- DELETE /api/chat (lines 418-458)
DeleteResp(u, id) ==
    IF id = NoParam THEN "bad_request:api"
    ELSE IF u = Anon THEN "unauthorized:chat"
    ELSE IF chats[id] = NoChat THEN "not_found:chat"
    ELSE IF chats[id].userId # u THEN "forbidden:chat"
    ELSE "200"

\* variant: the chat is deleted before the owner is checked
DeleteUnchecked(u, id) ==
    /\ Quiet
    /\ LET kind == DeleteResp(u, id)
       IN  /\ req' = [req EXCEPT ![OtherConn] =
                    [IdleReq EXCEPT !.op = "DELETE", !.pc = "done",
                                    !.resp = kind, !.chat = id,
                                    !.user = IF id = NoParam THEN Anon ELSE u]]
           /\ IF kind \in {"200", "forbidden:chat"}
              THEN /\ chats' = [chats EXCEPT ![id] = NoChat]
                   /\ votes' = {v \in votes : v.chatId # id}
                   /\ messages' = SelectSeq(messages, LAMBDA m : m.chatId # id)
                   /\ streamIds' =
                          SelectSeq(streamIds, LAMBDA row : row.chatId # id)
              ELSE UNCHANGED <<chats, votes, messages, streamIds>>
    /\ UNCHANGED <<redisUrl, globalStreamContext, now, gen, channel, started,
                   ctorAttempts>>

\* lines 418-449: the whole handler; deleteChatById({ id }) removes the
\* chat and, with it, its votes, messages and stream ids
Delete(u, id) ==
    /\ Quiet
    /\ LET kind == DeleteResp(u, id)
       IN  /\ req' = [req EXCEPT ![OtherConn] =
                    [IdleReq EXCEPT !.op = "DELETE", !.pc = "done",
                                    !.resp = kind, !.chat = id,
                                    !.user = IF id = NoParam THEN Anon ELSE u]]
           /\ IF kind = "200"
              THEN /\ chats' = [chats EXCEPT ![id] = NoChat]
                   /\ votes' = {v \in votes : v.chatId # id}
                   /\ messages' = SelectSeq(messages, LAMBDA m : m.chatId # id)
                   /\ streamIds' =
                          SelectSeq(streamIds, LAMBDA row : row.chatId # id)
              ELSE UNCHANGED <<chats, votes, messages, streamIds>>
    /\ UNCHANGED <<redisUrl, globalStreamContext, now, gen, channel, started,
                   ctorAttempts>>

\* ------------------------------------ GET /api/vote (lines 472-517)
VotesInputs ==
    {[user |-> u, chat |-> c] : u \in Sessions, c \in ChatIds \cup {NoParam}}

\* lines 478-503: the checks in their order
VotesResp(in) ==
    IF in.chat = NoParam THEN "bad_request:api"
    ELSE IF in.user = Anon THEN "unauthorized:vote"
    ELSE IF chats[in.chat] = NoChat THEN "not_found:chat"
    ELSE IF chats[in.chat].userId # in.user THEN "forbidden:vote"
    ELSE "200"

\* getVotesByChatId({ id }): the votes of the chat
VotesOf(c) == {v \in votes : v.chatId = c}

\* the whole handler: the votes of the chat are the body of the response
GetVotes(s) ==
    /\ Quiet
    /\ s = OtherConn
    /\ \E in \in VotesInputs :
          req' = [req EXCEPT ![s] =
                     [IdleReq EXCEPT !.op = "VOTES", !.pc = "done",
                                     !.resp = VotesResp(in), !.chat = in.chat,
                                     !.user = IF in.chat = NoParam
                                              THEN Anon ELSE in.user,
                                     !.body = IF VotesResp(in) = "200"
                                              THEN <<VotesOf(in.chat)>>
                                              ELSE <<>>]]
    /\ UNCHANGED <<redisUrl, globalStreamContext, now, chats, messages,
                   streamIds, gen, channel, started, ctorAttempts, votes>>

\* ---------------------------------- PATCH /api/vote (lines 526-580)
VoteTypes == {"up", "down", "sideways"}

\* the messages a vote may name: the assistant replies in storage
VotableIds ==
    {messages[i].id : i \in {j \in DOMAIN messages :
                                 messages[j].role = "assistant"}}

\* the body of the request: one that request.json() cannot read, or an
\* object whose chatId, messageId and type are each present or missing
PatchInputs ==
    {[ok |-> FALSE, user |-> Anon, chat |-> NoParam,
      message |-> NoMessageId, type |-> NoParam]}
    \cup {[ok |-> TRUE, user |-> u, chat |-> c, message |-> m, type |-> d] :
             u \in Sessions, c \in ChatIds \cup {NoParam},
             m \in VotableIds \cup {NoMessageId}, d \in VoteTypes \cup {NoParam}}

\* lines 528-565: request.json() throwing lands in the catch block (lines
\* 574-579); then the three parameters must be truthy, the caller signed in,
\* the chat there and the caller's
PatchResp(in) ==
    IF ~in.ok THEN "internal_server_error:api"
    ELSE IF \/ in.chat = NoParam \/ in.message = NoMessageId
            \/ in.type = NoParam
    THEN "bad_request:api"
    ELSE IF in.user = Anon THEN "unauthorized:vote"
    ELSE IF chats[in.chat] = NoChat THEN "not_found:chat"
    ELSE IF chats[in.chat].userId # in.user THEN "forbidden:vote"
    ELSE "200"

\* the direction of the vote a message has, "none" when it has no vote
PriorVote(c, m) ==
    IF \E v \in votes : v.chatId = c /\ v.messageId = m /\ v.isUpvoted
    THEN "up"
    ELSE IF \E v \in votes : v.chatId = c /\ v.messageId = m
    THEN "down"
    ELSE "none"

\* variant: a vote is added beside the vote the message had
VoteMessageAppend(c, m, d) ==
    votes \cup {[chatId |-> c, messageId |-> m, isUpvoted |-> (d = "up")]}

\* voteMessage({ chatId, messageId, type }): the vote of the message is set
\* to the direction given, a vote it had before is replaced
VoteMessage(c, m, d) ==
    {v \in votes : ~(v.chatId = c /\ v.messageId = m)}
    \cup {[chatId |-> c, messageId |-> m, isUpvoted |-> (d = "up")]}

\* the whole handler
PatchVote(s) ==
    /\ Quiet
    /\ s = OtherConn
    /\ \E in \in PatchInputs :
          /\ req' = [req EXCEPT ![s] =
                     [IdleReq EXCEPT !.op = "PATCH", !.pc = "done",
                                     !.resp = PatchResp(in), !.chat = in.chat,
                                     !.message = in.message, !.type = in.type,
                                     !.prior = IF PatchResp(in) = "200"
                                               THEN PriorVote(in.chat,
                                                              in.message)
                                               ELSE "none",
                                     !.body = IF in.ok THEN <<>>
                                              ELSE <<"unreadable">>,
                                     !.user = IF PatchResp(in) \in
                                                    {"200", "forbidden:vote"}
                                              THEN in.user ELSE Anon]]
          /\ votes' = IF PatchResp(in) = "200"
                      THEN VoteMessage(in.chat, in.message, in.type)
                      ELSE votes
    /\ UNCHANGED <<redisUrl, globalStreamContext, now, chats, messages,
                   streamIds, gen, channel, started, ctorAttempts>>

\* ------------------------------------------- exceptions of collaborators
\* what a call of auth, of a storage query or of the stream context may
\* throw: a plain Error, or a ChatSDKError with a kind of its own
Exceptions == {"Error", "bad_request:database"}

\* variant: every catch block answers internal_server_error:api
CatchAll(op, call, e) == "internal_server_error:api"

\* the catch blocks: POST (lines 272-280), GET (401-408) and DELETE
\* (450-457) answer a ChatSDKError with its own response and anything else
\* with internal_server_error:api; GET wraps getChatById in a catch of its
\* own (lines 318-322) and the vote handlers (lines 510-516, 574-579)
\* answer internal_server_error:api whatever was thrown
Catch(op, call, e) ==
    IF op \in {"VOTES", "PATCH"} THEN "internal_server_error:api"
    ELSE IF op = "GET" /\ call = "getChatById"
    THEN "internal_server_error:api"
    ELSE IF e = "Error" THEN "internal_server_error:api"
    ELSE e

\* the response of a request whose collaborator call threw e
Thrown(r, op, call, e) ==
    [r EXCEPT !.op = op, !.pc = "done", !.resp = Catch(op, call, e),
              !.threw = e, !.call = call]

\* the collaborator call a start-generation request makes next
PostCall(pc) ==
    IF pc = "idle" THEN "auth"
    ELSE IF pc = "chat" THEN "getChatById"
    ELSE IF pc = "mint" THEN "createStreamId"
    ELSE "resumableStream"

\* POST: the next collaborator call throws; at line 250 the data stream has
\* been created (line 163) and its producer goes on without the response
PostThrows(s) ==
    /\ Quiet
    /\ \/ s = PostConn /\ Free(s)
       \/ req[s].op = "POST" /\ req[s].pc \in {"chat", "mint"}
       \/ req[s].op = "POST" /\ req[s].pc = "publish"
          /\ GetStreamContext # "null"
    /\ \E e \in Exceptions :
          req' = [req EXCEPT ![s] =
                     Thrown(IdleReq, "POST", PostCall(req[s].pc), e)]
    /\ IF req[s].pc = "publish"
       THEN /\ gen' = [gen EXCEPT ![req[s].num] =
                         [NoGen EXCEPT !.stage = "run", !.chat = req[s].chat]]
            /\ globalStreamContext' = GetStreamContext
            /\ ctorAttempts' = AttemptsAfterAccess
       ELSE UNCHANGED <<gen, globalStreamContext, ctorAttempts>>
    /\ UNCHANGED <<redisUrl, now, chats, messages, streamIds, channel,
                   started, votes>>

\* GET /api/chat: auth or getChatById throws (the stream context is there),
\* or resumableStream, or getMessagesByChatId in the fallback
GetThrows(s) ==
    /\ Quiet
    /\ \E e \in Exceptions :
          \/ /\ s = GetConn /\ Free(s)
             /\ GetStreamContext # "null"
             /\ \E call \in {"auth", "getChatById"} :
                   req' = [req EXCEPT ![s] = Thrown(IdleReq, "GET", call, e)]
             /\ globalStreamContext' = GetStreamContext
             /\ ctorAttempts' = AttemptsAfterAccess
          \/ /\ req[s].op = "GET" /\ req[s].pc = "attach"
             /\ req' = [req EXCEPT ![s] =
                          Thrown(IdleReq, "GET", "resumableStream", e)]
             /\ UNCHANGED <<globalStreamContext, ctorAttempts>>
          \/ /\ req[s].op = "GET" /\ req[s].pc = "fallback"
             /\ req' = [req EXCEPT ![s] =
                          Thrown(IdleReq, "GET", "getMessagesByChatId", e)]
             /\ UNCHANGED <<globalStreamContext, ctorAttempts>>
    /\ UNCHANGED <<redisUrl, now, chats, messages, streamIds, gen, channel,
                   started, votes>>

\* DELETE, GET /api/vote and PATCH: auth or getChatById throws
OtherThrows(s) ==
    /\ Quiet
    /\ s = OtherConn
    /\ \E e \in Exceptions, op \in {"DELETE", "VOTES", "PATCH"},
          call \in {"auth", "getChatById"} :
          req' = [req EXCEPT ![s] = Thrown(IdleReq, op, call, e)]
    /\ UNCHANGED <<redisUrl, globalStreamContext, now, chats, messages,
                   streamIds, gen, channel, started, ctorAttempts, votes>>

\* ------------------------------------------------------- the connections
\* the client goes away before its stream has ended
Disconnect(s) ==
    /\ Quiet
    /\ req[s].pc = "reading" /\ req[s].conn
    /\ req' = [req EXCEPT ![s].conn = FALSE]
    /\ UNCHANGED <<redisUrl, globalStreamContext, now, chats, messages,
                   streamIds, gen, channel, started>>
    /\ UNCHANGED <<ctorAttempts, votes>>

\* the response has gone out and the connection is free again
Release(s) ==
    /\ Over(s)
    /\ req' = [req EXCEPT ![s] = IdleReq]
    /\ UNCHANGED <<redisUrl, globalStreamContext, now, chats, messages,
                   streamIds, gen, channel, started>>
    /\ UNCHANGED <<ctorAttempts, votes>>

\* ------------------------------------------------------------------- Next
Next ==
    \/ \E s \in Conns : PostBegin(s)
    \/ \E s \in Conns : PostSaveMsg(s)
    \/ \E s \in Conns : PostMint(s)
    \/ \E s \in Conns : PostPublish(s)
    \/ \E g \in GenIds : ProducerStep(g)
    \/ \E s \in Conns : GetBegin(s)
    \/ \E s \in Conns : GetAttach(s)
    \/ \E s \in Conns : GetFallback(s)
    \/ \E g \in GenIds : EmptyDrain(g)
    \/ \E u \in Sessions, id \in ChatIds \cup {NoParam} : Delete(u, id)
    \/ \E s \in Conns : Disconnect(s)
    \/ \E s \in Conns : Release(s)

Spec == Init /\ [][Next]_vars

\* the chat handlers together with the vote handlers and the exceptions of
\* their collaborators; these behaviours start at the last instant of the
\* clock and accept one generation
ApiNext ==
    \/ Next
    \/ \E s \in Conns : GetVotes(s)
    \/ \E s \in Conns : PatchVote(s)
    \/ \E s \in Conns : PostThrows(s)
    \/ \E s \in Conns : GetThrows(s)
    \/ \E s \in Conns : OtherThrows(s)

ApiSpec == Loaded(MaxClock, MaxGenerations - 1) /\ [][ApiNext]_vars

\* =================================================== checked properties

\* a resume request that found no stream to attach to and has answered
\* from the stored messages
FellBack(s) ==
    /\ req[s].op = "GET" /\ req[s].pub = "null" /\ req[s].readMsgs

\* ticks between the creation of the message read and the request
Age(s) == req[s].at - req[s].mrm.createdAt

EmptyTerminated(s) ==
    /\ req[s].resp = "stream"
    /\ StreamChunks(s) = <<>>
    /\ StreamClosed(s)

\* C1: a resume request whose attach gave no stream, for a chat with no
\* message or whose most recent message is not an assistant message,
\* answers with an empty terminated stream.
C1_NoAssistantReplyGivesEmpty ==
    \A s \in Conns :
        (FellBack(s) /\ (req[s].mrm = NoMsg \/ req[s].mrm.role # "assistant"))
            => EmptyTerminated(s)

C1_Witness ==
    \E s \in Conns :
        /\ FellBack(s) /\ req[s].mrm.role = "user"
        /\ Age(s) = 0
        /\ EmptyTerminated(s)

\* C2 as stated: any excess over the window, a fraction of a second
\* included, makes the assistant message stale and the stream empty.
C2_AnyExcessIsStale ==
    \A s \in Conns :
        (FellBack(s) /\ req[s].mrm.role = "assistant" /\ Age(s) > LongGap)
            => EmptyTerminated(s)

\* C2: a resume request whose attach gave no stream and whose most recent
\* message is an assistant message created at least one whole second more
\* than the window before the request answers with an empty terminated
\* stream; the age is counted in whole seconds, fractions dropped.
C2_WholeSecondExcessIsStale ==
    \A s \in Conns :
        (/\ FellBack(s) /\ req[s].mrm.role = "assistant"
         /\ Age(s) >= (StaleWindow + 1) * TicksPerSecond)
            => EmptyTerminated(s)

C2_Witness ==
    \E s \in Conns :
        /\ FellBack(s) /\ req[s].mrm.role = "assistant"
        /\ Age(s) = (StaleWindow + 1) * TicksPerSecond
        /\ EmptyTerminated(s)

\* C3: a resume request whose attach gave no stream and whose most recent
\* message is an assistant message created within the window answers with
\* a stream of exactly one chunk, the append-message control chunk
\* carrying the whole serialized most recent message, and then ends.
C3_FreshReplyIsReplayedOnce ==
    \A s \in Conns :
        (FellBack(s) /\ req[s].mrm.role = "assistant" /\ Age(s) <= LongGap)
            => /\ req[s].resp = "stream"
               /\ StreamChunks(s) = <<AppendMessageChunk(req[s].mrm)>>
               /\ StreamClosed(s)
               /\ req[s].mrm = MessagesOf(req[s].chat)[Len(MessagesOf(req[s].chat))]

C3_Witness ==
    \E s \in Conns :
        /\ FellBack(s) /\ req[s].mrm.role = "assistant"
        /\ Age(s) = LongGap
        /\ Len(StreamChunks(s)) = 1
        /\ StreamChunks(s)[1].type = "append-message"
        /\ StreamChunks(s)[1].data = Serialize(req[s].mrm)

\* the responses of a resume request decided before the stream ids are read
EarlierRejections ==
    {"204", "bad_request:api", "unauthorized:chat", "forbidden:chat"}

\* C4: a resume request for a chat for which no stream id is stored answers
\* not_found:stream, without attaching to any stream and without reading
\* the messages.
C4_NoStreamIdIsNotFound ==
    \A s \in Conns :
        (/\ req[s].op = "GET" /\ req[s].pc = "done"
         /\ req[s].resp \notin EarlierRejections
         /\ chats[req[s].chat] # NoChat
         /\ StreamIdsOf(req[s].chat) = <<>>)
            => /\ req[s].resp = "not_found:stream"
               /\ req[s].readIds
               /\ req[s].pub = "uncalled"
               /\ ~req[s].readMsgs

C4_Witness ==
    \E s \in Conns :
        /\ req[s].op = "GET" /\ req[s].readIds
        /\ chats[req[s].chat] # NoChat
        /\ StreamIdsOf(req[s].chat) = <<>>
        /\ req[s].resp = "not_found:stream"

\* C5: without a channel backend every resume request answers
\* "unavailable", whatever its other inputs, and neither reads storage nor
\* attaches to a stream.
C5_NoBackendIsUnavailable ==
    \A s \in Conns :
        (req[s].op = "GET" /\ ~redisUrl)
            => /\ req[s].pc = "done" /\ req[s].resp = "204"
               /\ req[s].ctx = "null"
               /\ ~req[s].dbRead /\ ~req[s].readIds /\ ~req[s].readMsgs
               /\ req[s].pub = "uncalled"

C5_Witness ==
    \E s \in Conns :
        /\ req[s].op = "GET" /\ ~redisUrl
        /\ req[s].chat = NoParam /\ req[s].user = Anon
        /\ req[s].resp = "204"

\* C6: a start-generation request that has no channel backend, or whose
\* publish gave no stream, answers with the stream of its own producer:
\* the client reads the chunks the producer emitted, in their order, and
\* the stream ends when the producer's does.
C6_UnpublishedIsPassThrough ==
    \A s \in Conns :
        (/\ req[s].op = "POST" /\ req[s].pc = "reading"
         /\ (req[s].ctx = "null" \/ req[s].pub = "null"))
            => /\ req[s].resp = "stream"
               /\ req[s].src = "gen" /\ req[s].srcGen = req[s].num
               /\ StreamChunks(s) = GenChunks(req[s].num)
               /\ StreamClosed(s) = GenClosed(req[s].num)

C6_Witness ==
    \E s \in Conns :
        /\ req[s].op = "POST" /\ req[s].pub = "null"
        /\ Ended(s)
        /\ Len(StreamChunks(s)) = MaxChunks + 1
        /\ StreamChunks(s)[1] = TextChunk(req[s].num, 1)
        /\ StreamChunks(s)[MaxChunks + 1] = FinishChunk(req[s].num)

\* the stream id g is in the list of chat c
Listed(g, c) == \E i \in 1..Len(StreamIdsOf(c)) : StreamIdsOf(c)[i] = g

\* a stream id minted after g is in the list of chat c
Superseded(g, c) ==
    \E i \in 1..Len(StreamIdsOf(c)) : StreamIdsOf(c)[i] > g

\* the step in which the resume request on s reads the stream ids of its chat
ReadsStreamIds(s) == req[s].op = "idle" /\ req'[s].op = "GET" /\ req'[s].readIds

\* every start-generation request that went on minted once, every rejected
\* one not at all
MintedOnce ==
    \A s \in Conns :
        req[s].op = "POST" =>
            /\ req[s].pc \in {"publish", "reading"} => req[s].minted = 1
            /\ req[s].pc \in {"done", "chat", "mint"} => req[s].minted = 0

\* the mint appends the id to the list of the chat, and a producer starts
\* only for a request that has minted
MintedBeforeStart ==
    /\ \A s \in Conns :
          (req'[s].minted # req[s].minted /\ req'[s].minted # 0) =>
              /\ streamIds' = Append(streamIds,
                     [streamId |-> req[s].num, chatId |-> req[s].chat])
              /\ gen[req[s].num].stage = "none"
              /\ gen'[req[s].num].stage = "none"
    /\ \A g \in GenIds :
          (gen[g].stage = "none" /\ gen'[g].stage # "none") =>
              \E s \in Conns :
                  /\ req[s].op = "POST" /\ req[s].num = g
                  /\ req[s].minted = 1
                  /\ Listed(g, req[s].chat) \/ chats[req[s].chat] = NoChat

\* C7 as stated: every resume request that reads the stream ids while a
\* producer of its chat is active finds that producer's id as the latest.
C7_ActiveIdIsAlwaysLatest ==
    /\ []MintedOnce
    /\ [][MintedBeforeStart]_vars
    /\ [][\A s \in Conns : \A g \in GenIds :
            (ReadsStreamIds(s) /\ GenActive(g) /\ gen[g].chat = req'[s].chat)
                => (req'[s].pc = "attach" /\ req'[s].recent = g)]_vars

\* C7: an accepted start-generation request mints exactly one stream id and
\* appends it to the list of its chat before its producer starts, a rejected
\* one mints none; a resume request that reads the list while the producer
\* is active finds that id as the latest one, unless a later
\* start-generation request has minted a newer id for the chat or the chat
\* has been deleted in the meantime.
C7_ActiveIdIsLatestUnlessSuperseded ==
    /\ []MintedOnce
    /\ [][MintedBeforeStart]_vars
    /\ [][\A s \in Conns : \A g \in GenIds :
            (/\ ReadsStreamIds(s) /\ GenActive(g) /\ gen[g].chat = req'[s].chat
             /\ Listed(g, gen[g].chat) /\ ~Superseded(g, gen[g].chat))
                => (req'[s].pc = "attach" /\ req'[s].recent = g)]_vars

C7_Witness ==
    \E s \in Conns : \E g \in GenIds :
        /\ req[s].op = "GET" /\ req[s].pc = "attach" /\ req[s].recent = g
        /\ gen[g].stage = "run" /\ gen[g].n = 0
        /\ gen[g].chat = req[s].chat

\* the assistant message of generation g is among the stored messages
Stored(g) ==
    \E i \in 1..Len(messages) :
        /\ messages[i].id = <<"assistant", g>>
        /\ messages[i].role = "assistant"
        /\ messages[i].chatId = gen[g].chat
        /\ messages[i].parts = PartsOf(g, MaxChunks)

\* the rows of the chat of generation g were deleted after g was minted
DeletedSince(g) == \A i \in 1..Len(streamIds) : streamIds[i].streamId # g

\* C8: there is no state in which the stream of a generation has ended
\* successfully, saving its assistant message did not fail, and the message
\* is not in storage (short of the chat having been deleted): the message
\* is saved before the stream closes.
C8_SavedBeforeClose ==
    \A g \in GenIds :
        (GenClosed(g) /\ ~gen[g].failed /\ gen[g].persist # "failed")
            => /\ gen[g].persist = "saved"
               /\ Stored(g) \/ DeletedSince(g)

C8_Witness ==
    \E g \in GenIds :
        /\ gen[g].stage = "post" /\ gen[g].persist = "saved"
        /\ Stored(g)
        /\ channel[g] = "gen" /\ ResumableStream(g) = "reader"

\* the runtime keeps running a started producer and finishes the responses
\* it has begun; the clock plays no part in progress, so these behaviours
\* start at the last instant of the clock and time stands still in them
FairSpec ==
    /\ LoadedAt(MaxClock)
    /\ [][Next]_vars
    /\ \A g \in GenIds : SF_vars(ProducerStep(g))
    /\ \A s \in Conns : WF_vars(Release(s))

\* the chunks of a generation that ended well
NormalChunks(g) ==
    [k \in 1..(MaxChunks + 1) |->
        IF k <= MaxChunks THEN TextChunk(g, k) ELSE FinishChunk(g)]

\* the failure to save the message of generation g left no other trace:
\* the stream carries what it carries when the save succeeds, no response
\* is an error, and the message is not stored
Swallowed(g) ==
    /\ ~gen[g].failed
    /\ GenChunks(g) = NormalChunks(g)
    /\ \A s \in Conns :
          (req[s].src = "gen" /\ req[s].srcGen = g) => req[s].resp = "stream"
    /\ \A i \in 1..Len(messages) : messages[i].id # <<"assistant", g>>

\* C9: when saving the assistant message fails the failure is swallowed:
\* the stream of the generation still ends normally, without an error chunk
\* or an error response, and nothing else than the missing message shows.
C9_SaveFailureIsSwallowed ==
    \A g \in GenIds :
        /\ [](gen[g].persist = "failed" => Swallowed(g))
        /\ (gen[g].persist = "failed") ~> (GenClosed(g) /\ Swallowed(g))

C9_Witness ==
    \E g \in GenIds : \E s \in Conns :
        /\ gen[g].persist = "failed" /\ GenClosed(g)
        /\ chats[gen[g].chat] # NoChat
        /\ req[s].src = "gen" /\ req[s].srcGen = g /\ Ended(s)
        /\ StreamChunks(s) = NormalChunks(g)

\* no connected client reads the stream of generation g
NoReader(g) ==
    \A s \in Conns :
        ~(req[s].pc = "reading" /\ req[s].conn
          /\ req[s].src = "gen" /\ req[s].srcGen = g)

\* C10: a producer that has started runs to the end of its stream, by
\* completion or by a failure of its own, also when no client reads it any
\* more; when it completes, the save of the assistant message has run.
C10_ProducerOutlivesReaders ==
    \A g \in GenIds :
        (GenActive(g) /\ NoReader(g))
            ~> (GenClosed(g) /\ (gen[g].failed \/ gen[g].persist # "pending"))

C10_Witness ==
    \E g \in GenIds :
        /\ gen[g].stage = "post" /\ gen[g].persist = "saved" /\ Stored(g)
        /\ channel[g] = "gen"
        /\ NoReader(g)
        /\ \A s \in Conns : req[s].op = "idle"

\* the response kinds that turn a request down for its input or its caller
Rejections ==
    {"bad_request:api", "unauthorized:chat", "rate_limit:chat",
     "forbidden:chat"}

\* the step in which the request on s is answered with a rejection
Rejects(s) ==
    /\ req[s].resp = "none"
    /\ req'[s].op \in {"POST", "DELETE"}
    /\ req'[s].resp \in Rejections

C12_OnlyTheGenerationPublishes ==
    /\ \A g \in GenIds : channel[g] \in {"absent", "gen"}
    /\ \A s \in Conns :
          req[s].op = "GET" => req[s].pub \in {"uncalled", "reader", "null"}

\* the connection s reads the channel of stream id g: the start-generation
\* request that published or found the id taken, or a resume request that
\* attached as a reader
ReaderOf(s, g) ==
    /\ req[s].pc = "reading"
    /\ \/ /\ req[s].op = "POST" /\ req[s].num = g
          /\ req[s].pub \in {"publisher", "reader"}
       \/ /\ req[s].op = "GET" /\ req[s].recent = g
          /\ req[s].pub = "reader"

CastsVote(s) == req[s].op = "idle" /\ req'[s].op = "PATCH"

\* C14: a cast-vote request whose body cannot be read, whose chatId or
\* messageId is missing, or whose direction is not 'up' or 'down', is
\* answered bad_request and writes no vote.
C14_BadVoteIsRejected ==
    [][\A s \in Conns :
        (/\ CastsVote(s)
         /\ \/ req'[s].body # <<>>
            \/ req'[s].chat = NoParam
            \/ req'[s].message = NoMessageId
            \/ req'[s].type \notin {"up", "down"})
            => (req'[s].resp = "bad_request:api" /\ votes' = votes)]_vars

VotesFor(vs, c, m) == {v \in vs : v.chatId = c /\ v.messageId = m}

\* C16: an accepted vote of direction up or down leaves exactly one record
\* for its (conversation, message) pair, holding that direction, whatever
\* direction the pair had before; it leaves the votes of other pairs alone,
\* and repeating the direction the pair already has changes nothing.
C16_VoteIsAnUpsert ==
    [][\A s \in Conns :
        (/\ CastsVote(s)
         /\ req'[s].resp = "200"
         /\ req'[s].type \in {"up", "down"})
            => LET c == req'[s].chat
                   m == req'[s].message
                   row == [chatId |-> c, messageId |-> m,
                           isUpvoted |-> (req'[s].type = "up")]
               IN  /\ VotesFor(votes', c, m) = {row}
                   /\ votes' \ {row} = votes \ VotesFor(votes, c, m)
                   /\ PriorVote(c, m) = req'[s].type => votes' = votes]_vars

C16_Witness ==
    \E s \in Conns :
        /\ req[s].op = "PATCH" /\ req[s].resp = "200"
        /\ req[s].prior = "up" /\ req[s].type = "down"
        /\ VotesFor(votes, req[s].chat, req[s].message)
              = {[chatId |-> req[s].chat, messageId |-> req[s].message,
                  isUpvoted |-> FALSE]}

\* C17: the construction of the stream context is attempted at most once in
\* the life of the process; after a first attempt that failed, later
\* accesses give no handle without constructing again.
C17_ConstructedAtMostOnce == ctorAttempts <= 1

\* C18: a message the resume fallback replays is the assistant reply of the
\* generation of the latest stream id of the chat (the latest in storage,
\* or the latest the request read), never the reply of the generation of an
\* earlier stream id.
C18_ReplayIsOfLatestGeneration ==
    \A s \in Conns :
        (FellBack(s) /\ StreamChunks(s) # <<>>)
            => LET ids == StreamIdsOf(req[s].chat)
               IN  \/ /\ ids # <<>>
                      /\ req[s].mrm.id = <<"assistant", ids[Len(ids)]>>
                   \/ req[s].mrm.id = <<"assistant", req[s].recent>>

\* C19: no user ever has more messages of the day in storage than the daily
\* quota allows; a request made when the count equals the quota is rejected.
C19_QuotaIsNeverExceeded ==
    \A u \in Users : MessageCount(u) <= MaxMessagesPerDay

\* a resume request passes the checks made before storage is read
ResumeBegins(s) ==
    /\ req[s].op = "idle" /\ req'[s].op = "GET"
    /\ req'[s].threw = "none"
    /\ req'[s].ctx # "null"
    /\ req'[s].chat \in ChatIds /\ req'[s].user \in Users
    /\ chats[req'[s].chat] # NoChat

\* C20: a resume request of a signed-in user for a private chat of another
\* user answers forbidden:chat, having read neither the stream ids nor the
\* messages and without attaching to a stream or replaying a message; a
\* public chat, or the caller's own, is not answered forbidden:chat and the
\* request goes on to attach when the chat has a stream id.
C20_PrivateChatIsResumedByOwnerOnly ==
    [][\A s \in Conns :
        ResumeBegins(s) =>
            LET chat == chats[req'[s].chat]
            IN  IF chat.visibility = "private"
                   /\ chat.userId # req'[s].user
                THEN /\ req'[s].resp = "forbidden:chat"
                     /\ req'[s].pc = "done"
                     /\ ~req'[s].readIds /\ ~req'[s].readMsgs
                     /\ req'[s].pub = "uncalled"
                     /\ req'[s].body = <<>>
                     /\ channel' = channel
                ELSE /\ req'[s].resp # "forbidden:chat"
                     /\ req'[s].readIds
                     /\ StreamIdsOf(req'[s].chat) # <<>>
                            => req'[s].pc = "attach"]_vars

C20_Witness ==
    \E s \in Conns :
        /\ req[s].op = "GET" /\ req[s].resp = "forbidden:chat"
        /\ req[s].user \in Users
        /\ chats[req[s].chat].visibility = "private"
        /\ chats[req[s].chat].userId # req[s].user
        /\ StreamIdsOf(req[s].chat) # <<>>
        /\ \E g \in GenIds : GenActive(g) /\ gen[g].chat = req[s].chat
        /\ ~req[s].readIds /\ req[s].pub = "uncalled"

====
